---- MODULE Spec2Model ----
(***************************************************************************)
(* A model of scripts/utils.py of orcestra_flight_segmentation: the        *)
(* closest-approach ("overpass") finders, the circle fit and its RANSAC    *)
(* wrapper, the EarthCARE track lookup with its fallback loop, and the     *)
(* take-off / landing detection.                                           *)
(*                                                                         *)
(* Numbers.  Floating-point values are modelled in fixed point:            *)
(*   - coordinates (degrees) and distances (metres) are integers on a flat *)
(*     patch, geod.inv being the Euclidean distance rounded down;          *)
(*   - a timestamp is an integer count of ticks (the code's nanoseconds);  *)
(*     t_unit ticks make one second;                                       *)
(*   - a float number of seconds is an integer count of 1/(t_unit*Frac)    *)
(*     seconds, so that a float resolves Frac steps inside one tick;       *)
(*   - NaN is the value NaN below; every comparison with it is false.      *)
(***************************************************************************)
EXTENDS Integers, Sequences, FiniteSets, TLC

VARIABLES
    call,       \* the call of a one-shot function: its name and arguments
    ret,        \* what that call returned or raised
    locals,     \* the local variables of that call
    pc,         \* where the call stands: "idle", inside a loop, "done"
    np_global,  \* the state of numpy's process-wide generator: its draws so far
    prev        \* the call completed before this one, its result and draws

vars == <<call, ret, locals, pc, np_global, prev>>

----------------------------------------------------------------------------
(* Bounds of the model *)

\* longest own-ship track (a_track / ds)
MaxLenA == 3
\* longest reference track (b_track)
MaxLenB == 2
\* the last second on which a sample may lie
MaxT == 3

----------------------------------------------------------------------------
(* Arithmetic *)

NaN == -1

IsNaN(x) == x = NaN

\* x < y and x <= y as IEEE floats compare: false when either is NaN
Lt(x, y) == ~IsNaN(x) /\ ~IsNaN(y) /\ x < y

Le(x, y) == ~IsNaN(x) /\ ~IsNaN(y) /\ x <= y

Abs(x) == IF x < 0 THEN 0 - x ELSE x

\* division rounding toward zero (a float cast to an integer, a float halved
\* at the last bit)
TruncDiv(x, d) == IF x < 0 THEN 0 - ((0 - x) \div d) ELSE x \div d

RECURSIVE SqrtSearch(_, _, _)
SqrtSearch(n, lo, hi) ==
    IF lo >= hi THEN lo
    ELSE LET mid == (lo + hi + 1) \div 2
         IN  IF mid * mid <= n THEN SqrtSearch(n, mid, hi)
             ELSE SqrtSearch(n, lo, mid - 1)

\* the square root, rounded down
ISqrt(n) == SqrtSearch(n, 0, n)

----------------------------------------------------------------------------
(* Geodesy, tracks and interpolation (the external capabilities) *)

\* 1000_000_000 ns, the code's second, scaled down to 4 ticks
t_unit == 4

\* float steps inside one tick
Frac == 2

\* geod.inv(lon1, lat1, lon2, lat2)[2]: the distance of two points, NaN when
\* a coordinate is NaN
geod_inv(lon1, lat1, lon2, lat2) ==
    IF IsNaN(lon1) \/ IsNaN(lat1) \/ IsNaN(lon2) \/ IsNaN(lat2) THEN NaN
    ELSE ISqrt((lon2 - lon1) * (lon2 - lon1) + (lat2 - lat1) * (lat2 - lat1))

\* the seconds on which a sample may lie, and the timestamps they make
TimeStamps == {s * t_unit : s \in 0..MaxT}

\* where a sample of the own-ship track may lie: <<lat, lon>>
Positions == {<<0, 0>>, <<0, 24>>, <<16, 8>>}

\* where a sample of the reference track may lie
PositionsB == {<<0, 0>>, <<16, 8>>}

\* the tracks of n samples over the positions pos: time strictly increasing
TracksOfLen(n, pos) ==
    {trk \in [1..n -> [time : TimeStamps, lat : {p[1] : p \in pos},
                       lon : {p[2] : p \in pos}]] :
        /\ \A k \in 1..n : <<trk[k].lat, trk[k].lon>> \in pos
        /\ \A k \in 1..(n - 1) : trk[k].time < trk[k + 1].time}

Tracks(minlen, maxlen, pos) == UNION {TracksOfLen(n, pos) : n \in minlen..maxlen}

\* a selection that forgets the window: every sample
sel_all(trk, lo, hi) == trk

\* a selection that forgets the window's start: the samples with time <= hi
sel_upto(trk, lo, hi) == SelectSeq(trk, LAMBDA smp : smp.time <= hi)

\* track.sel(time=slice(lo, hi)): the samples with lo <= time <= hi
RECURSIVE sel(_, _, _)
sel(trk, lo, hi) ==
    IF trk = <<>> THEN <<>>
    ELSE IF lo <= Head(trk).time /\ Head(trk).time <= hi
         THEN <<Head(trk)>> \o sel(Tail(trk), lo, hi)
         ELSE sel(Tail(trk), lo, hi)

\* an interpolation that extrapolates the first or last piece outside the span
interp1_extrapolate(xs, t) ==
    IF Len(xs) = 0 THEN NaN
    ELSE IF Len(xs) = 1 THEN xs[1].y
    ELSE LET k == IF t <= xs[1].x THEN 1
                  ELSE IF t >= xs[Len(xs)].x THEN Len(xs) - 1
                  ELSE CHOOSE j \in 1..(Len(xs) - 1) : xs[j].x <= t /\ t < xs[j + 1].x
         IN  xs[k].y + ((xs[k + 1].y - xs[k].y) * (t - xs[k].x))
                           \div (xs[k + 1].x - xs[k].x)

\* one field of track.interp(time=t, method="linear"): linear between the
\* two samples around t, NaN outside the track's span (no extrapolation)
interp1(xs, t) ==
    IF Len(xs) = 0 THEN NaN
    ELSE IF t < xs[1].x \/ t > xs[Len(xs)].x THEN NaN
    ELSE IF \E k \in DOMAIN xs : xs[k].x = t
         THEN xs[CHOOSE k \in DOMAIN xs : xs[k].x = t].y
    ELSE LET k == CHOOSE j \in 1..(Len(xs) - 1) : xs[j].x < t /\ t < xs[j + 1].x
         IN  xs[k].y + ((xs[k + 1].y - xs[k].y) * (t - xs[k].x))
                           \div (xs[k + 1].x - xs[k].x)

\* track.interp(time=t): both coordinates at time t
interp(trk, t) ==
    [time |-> t,
     lat |-> interp1([k \in DOMAIN trk |-> [x |-> trk[k].time, y |-> trk[k].lat]], t),
     lon |-> interp1([k \in DOMAIN trk |-> [x |-> trk[k].time, y |-> trk[k].lon]], t)]

\* track.interp(time=other.time): resampled onto the other track's times
interp_onto(trk, other) == [k \in DOMAIN other |-> interp(trk, other[k].time)]

\* the distances of two tracks on the same times, sample by sample
dists(a, b) ==
    [k \in DOMAIN a |-> geod_inv(b[k].lon, b[k].lat, a[k].lon, a[k].lat)]

\* numpy.argmin scans the array and keeps an index only when its value is
\* strictly smaller than the best so far: the first smallest (indices from 1)
RECURSIVE argmin_scan(_, _, _)
argmin_scan(d, best, k) ==
    IF k > Len(d) THEN best
    ELSE argmin_scan(d, IF d[k] < d[best] THEN k ELSE best, k + 1)

\* a scan that also takes an equal value: the last smallest
RECURSIVE argmin_last_scan(_, _, _)
argmin_last_scan(d, best, k) ==
    IF k > Len(d) THEN best
    ELSE argmin_last_scan(d, IF d[k] <= d[best] THEN k ELSE best, k + 1)

argmin_last(d) == argmin_last_scan(d, 1, 2)

argmin(d) == argmin_scan(d, 1, 2)

\* a Python exception leaving the function
Raise(kind) == [status |-> "raise", error |-> kind]

\* a (distance, time) pair returned
Overpass(d, t) == [status |-> "ok", distance |-> d, time |-> t]

----------------------------------------------------------------------------
(* get_overpass_point *)

get_overpass_point(ds, target_lat, target_lon) ==
    LET dist == [k \in DOMAIN ds |->
                    geod_inv(ds[k].lon, ds[k].lat, target_lon, target_lat)]
    IN  IF Len(ds) = 0 THEN Raise("ValueError")   \* argmin of an empty array
        ELSE LET i == argmin(dist)
             IN  Overpass(dist[i], ds[i].time)

----------------------------------------------------------------------------
(* scipy.optimize.minimize(cost, 0., method="Nelder-Mead") in one dimension *)

\* the second vertex of the initial simplex lies zdelt beside a zero start
zdelt == 2
\* the simplex is small enough when its vertices lie within xatol ...
xatol == 1
\* ... and their costs within fatol of each other
fatol == 0
\* iterations allowed (200 per dimension in scipy; scaled with the grid)
maxiter == 4

\* the cost of get_overpass_track at float offset t (seconds from t_guess):
\* _a and _b carry the float time axis (time - t_guess) / t_unit
cost(a, b, t_guess, t) ==
    LET _a == [k \in DOMAIN a |-> [a[k] EXCEPT !.time = (a[k].time - t_guess) * Frac]]
        _b == [k \in DOMAIN b |-> [b[k] EXCEPT !.time = (b[k].time - t_guess) * Frac]]
        pa == interp(_a, t)
        pb == interp(_b, t)
    IN  geod_inv(pb.lon, pb.lat, pa.lon, pa.lat)

\* numpy.argsort of the two costs: the smaller first, NaN last, ties in place
nm_sort(s) ==
    IF Lt(s.f1, s.f0) \/ (IsNaN(s.f0) /\ ~IsNaN(s.f1))
    THEN [x0 |-> s.x1, f0 |-> s.f1, x1 |-> s.x0, f1 |-> s.f0]
    ELSE s

\* the loop's exit test
nm_converged(s) ==
    /\ Abs(s.x1 - s.x0) <= xatol
    /\ ~IsNaN(s.f0) /\ ~IsNaN(s.f1)
    /\ Abs(s.f0 - s.f1) <= fatol

\* one iteration: reflect the worst vertex x1 through the best x0, then
\* expand, contract or shrink (rho = 1, chi = 2, psi = sigma = 1/2)
nm_step(a, b, t_guess, s) ==
    LET xbar == s.x0
        xr   == 2 * xbar - s.x1
        fxr  == cost(a, b, t_guess, xr)
        xe   == 3 * xbar - 2 * s.x1
        fxe  == cost(a, b, t_guess, xe)
        xc   == xbar + TruncDiv(xbar - s.x1, 2)
        fxc  == cost(a, b, t_guess, xc)
        xcc  == xbar + TruncDiv(s.x1 - xbar, 2)
        fxcc == cost(a, b, t_guess, xcc)
        xs   == s.x0 + TruncDiv(s.x1 - s.x0, 2)
        shrink == [s EXCEPT !.x1 = xs, !.f1 = cost(a, b, t_guess, xs)]
    IN  nm_sort(
          IF Lt(fxr, s.f0)
          THEN IF Lt(fxe, fxr) THEN [s EXCEPT !.x1 = xe, !.f1 = fxe]
                               ELSE [s EXCEPT !.x1 = xr, !.f1 = fxr]
          ELSE IF Lt(fxr, s.f1)
               THEN IF Le(fxc, fxr) THEN [s EXCEPT !.x1 = xc, !.f1 = fxc]
                                    ELSE shrink
               ELSE IF Lt(fxcc, s.f1) THEN [s EXCEPT !.x1 = xcc, !.f1 = fxcc]
                                      ELSE shrink)

RECURSIVE nm_loop(_, _, _, _, _)
nm_loop(a, b, t_guess, s, iterations) ==
    IF iterations >= maxiter THEN [x |-> s.x0, success |-> FALSE]
    ELSE IF nm_converged(s) THEN [x |-> s.x0, success |-> TRUE]
    ELSE nm_loop(a, b, t_guess, nm_step(a, b, t_guess, s), iterations + 1)

\* res = minimize(cost, 0., method="Nelder-Mead"): res.x and res.success
minimize(a, b, t_guess) ==
    nm_loop(a, b, t_guess,
            nm_sort([x0 |-> 0, f0 |-> cost(a, b, t_guess, 0),
                     x1 |-> zdelt, f1 |-> cost(a, b, t_guess, zdelt)]),
            0)

----------------------------------------------------------------------------
(* get_overpass_track *)

\* the function's local variables and what it returns or raises
overpass_track_frame(a_track, b_track, optimize) ==
    IF Len(b_track) = 0
    THEN [return |-> Raise("IndexError")]           \* b_track.time[[0, -1]]
    ELSE
    LET a    == sel(a_track, b_track[1].time, b_track[Len(b_track)].time)
        b    == interp_onto(b_track, a)
        dist == dists(a, b)
    IN  IF Len(dist) = 0
        THEN [a |-> a, return |-> Raise("ValueError")]   \* argmin of an empty array
        ELSE
        LET i == argmin(dist)
        IN  IF optimize
            THEN LET t_guess == a[i].time
                     res     == minimize(a, b, t_guess)
                     t       == res.x
                 IN  [a |-> a, i |-> i, dist_i |-> dist[i], t_guess |-> t_guess,
                      res |-> res,
                      return |-> Overpass(cost(a, b, t_guess, t),
                                          t_guess + TruncDiv(t, Frac))]
            ELSE [a |-> a, i |-> i, dist_i |-> dist[i],
                  return |-> Overpass(dist[i], a[i].time)]

get_overpass_track(a_track, b_track, optimize) ==
    overpass_track_frame(a_track, b_track, optimize).return

----------------------------------------------------------------------------
(* The calls of the overpass finders: one call in a behaviour *)

\* no call made yet
NoCall == [fn |-> "none"]

Targets == Positions \cup {<<0, 8>>}

CallOverpassPoint ==
    /\ pc = "idle"
    /\ UNCHANGED <<np_global, prev>>
    /\ pc' = "done"
    /\ \E ds \in Tracks(0, MaxLenA, Positions), tg \in Targets :
        /\ call' = [fn |-> "get_overpass_point", ds |-> ds,
                    target_lat |-> tg[1], target_lon |-> tg[2]]
        /\ ret' = get_overpass_point(ds, tg[1], tg[2])
        /\ locals' = NoCall

CallOverpassTrack ==
    /\ pc = "idle"
    /\ UNCHANGED <<np_global, prev>>
    /\ pc' = "done"
    /\ \E a \in Tracks(0, MaxLenA, Positions), b \in Tracks(1, MaxLenB, PositionsB),
          optimize \in BOOLEAN :
        /\ call' = [fn |-> "get_overpass_track", a_track |-> a, b_track |-> b,
                    optimize |-> optimize]
        /\ locals' = overpass_track_frame(a, b, optimize)
        /\ ret' = locals'.return

Init ==
    /\ call = NoCall
    /\ ret = NoCall
    /\ locals = NoCall
    /\ pc = "idle"
    /\ np_global = 0
    /\ prev = NoCall

NextOverpass == CallOverpassPoint \/ CallOverpassTrack

SpecOverpass == Init /\ [][NextOverpass]_vars

----------------------------------------------------------------------------
(* get_takeoff_landing *)

\* longest altitude series of a flight
MaxSamples == 3

\* timestamps a day is divided into
PerDay == 2

\* the days of 2024 the code compares with, as days of the year
D_2024_08_10 == 223
D_2024_09_05 == 249
D_2024_09_07 == 251
D_2024_09_29 == 273

\* the timestamp of midnight starting a day: np.datetime64("....T00:00:00")
Midnight(day) == day * PerDay

\* airport heights above WGS84 (m)
Memmingen == 681
Sal == 90
Barbados == 9

\* the days a sample may lie on: one before each date compared with, and each
\* of those dates
FlightDays == {D_2024_08_10 - 1, D_2024_08_10, D_2024_09_05, D_2024_09_07,
               D_2024_09_29}

FlightTimes == {Midnight(d) + h : d \in FlightDays, h \in 0..(PerDay - 1)}

\* the altitudes a sample may have: on each airport's height and above it
Altitudes == {Barbados, Sal, Sal + 1, Memmingen, Memmingen + 1}

\* the altitude series of n samples: time strictly increasing
FlightsOfLen(n, times, alts) ==
    {ds \in [1..n -> [time : times, alt : alts]] :
        \A k \in 1..(n - 1) : ds[k].time < ds[k + 1].time}

Flights(maxlen, times, alts) ==
    UNION {FlightsOfLen(n, times, alts) : n \in 0..maxlen}

\* the take-off airport's height, chosen by the first timestamp
airport_takeoff_wgs84(t_first) ==
    IF t_first < Midnight(D_2024_08_10) THEN Memmingen
    ELSE IF t_first >= Midnight(D_2024_08_10) /\ t_first < Midnight(D_2024_09_07)
         THEN Sal
    ELSE Barbados

\* the landing airport's height, chosen by the last timestamp
airport_landing_wgs84(t_last) ==
    IF t_last < Midnight(D_2024_09_05) THEN Sal
    ELSE IF t_last >= Midnight(D_2024_09_05) /\ t_last < Midnight(D_2024_09_29)
         THEN Barbados
    ELSE Memmingen

\* ds["time"].where(ds.alt > height, drop=True): the times of the samples above
times_above(ds, height) ==
    LET above == SelectSeq(ds, LAMBDA smp : smp.alt > height)
    IN  [k \in DOMAIN above |-> above[k].time]

\* the first element, [0], where the last is meant
landing_index_first(times) == 1

\* the index [-1] of the landing among the times above the landing height
landing_index(times) == Len(times)

\* minutes in one timestamp step: .astype("timedelta64[m]")
MinutesPerStep == 1440 \div PerDay

get_takeoff_landing(ds) ==
    IF Len(ds) = 0 THEN Raise("IndexError")            \* ds.time[0]
    ELSE
    LET up   == times_above(ds, airport_takeoff_wgs84(ds[1].time))
        down == times_above(ds, airport_landing_wgs84(ds[Len(ds)].time))
    IN  IF Len(up) = 0 \/ Len(down) = 0 THEN Raise("IndexError")   \* [0], [-1]
        ELSE LET takeoff == up[1]
                 landing == down[landing_index(down)]
             IN  [status |-> "ok", takeoff |-> takeoff, landing |-> landing,
                  duration |-> (landing - takeoff) * MinutesPerStep]

CallTakeoffLanding ==
    /\ pc = "idle"
    /\ UNCHANGED <<np_global, prev>>
    /\ \E ds \in Flights(MaxSamples, FlightTimes, Altitudes) :
        /\ call' = [fn |-> "get_takeoff_landing", ds |-> ds]
        /\ ret' = get_takeoff_landing(ds)
    /\ locals' = NoCall
    /\ pc' = "done"

NextTakeoff == CallTakeoffLanding

SpecTakeoff == Init /\ [][NextTakeoff]_vars

----------------------------------------------------------------------------
(* get_ec_track *)

\* longest altitude series of a flight whose EarthCARE track is looked up
MaxEcSamples == 2

\* range(0, 6): the forecasts of the flight day and of the 5 days before it
N_ISSUE_DATES == 6

\* takeoff.astype("datetime64[D]"): the day a timestamp lies on
astype_D(t) == t \div PerDay

\* a list starting the day before the flight day: range(1, 7)
issue_dates_from_yesterday(valid_date) ==
    [i \in 1..N_ISSUE_DATES |-> valid_date - i]

\* [valid_date - np.timedelta64(i, 'D') for i in range(0, 6)]
issue_dates(valid_date) ==
    [i \in 1..N_ISSUE_DATES |-> valid_date - (i - 1)]

\* the region of interest of the forecast
roi(valid_date) ==
    IF Midnight(valid_date) >= Midnight(D_2024_09_07) THEN "BARBADOS"
    ELSE "CAPE_VERDE"

\* ec_track before any assignment
Unbound == [bound |-> FALSE]

\* SattrackLoader("EARTHCARE", issue_date, kind="PRE", roi=roi)
\*     .get_track_for_day(valid_date).sel(time=slice(takeoff, landing))
loaded_track(issue_date, f) ==
    [bound |-> TRUE, issue_date |-> issue_date, roi |-> f.roi,
     day |-> f.valid_date, from |-> f.takeoff, to |-> f.landing]

\* get_ec_track(flight_id, ds) up to its loop
EcCall ==
    /\ pc = "idle"
    /\ UNCHANGED <<np_global, prev>>
    /\ \E ds \in Flights(MaxEcSamples, FlightTimes, {Barbados, Memmingen + 1}) :
        LET tl == get_takeoff_landing(ds)
        IN  /\ call' = [fn |-> "get_ec_track", ds |-> ds]
            /\ IF tl.status = "raise"
               THEN /\ ret' = tl
                    /\ locals' = NoCall
                    /\ pc' = "done"
               ELSE LET valid_date == astype_D(tl.takeoff)
                    IN  /\ ret' = NoCall
                        /\ locals' = [takeoff |-> tl.takeoff, landing |-> tl.landing,
                                      valid_date |-> valid_date,
                                      issue_dates |-> issue_dates(valid_date),
                                      roi |-> roi(valid_date),
                                      k |-> 1, attempts |-> <<>>, warnings |-> 0,
                                      ec_track |-> Unbound]
                        /\ pc' = "loop"

\* one pass of the loop whose load succeeds: assign ec_track and break
EcLoadOk ==
    /\ pc = "loop"
    /\ locals.k <= Len(locals.issue_dates)
    /\ LET issue_date == locals.issue_dates[locals.k]
       IN  locals' = [locals EXCEPT
                        !.attempts = Append(@, [issue_date |-> issue_date, ok |-> TRUE]),
                        !.ec_track = loaded_track(issue_date, locals)]
    /\ pc' = "return"
    /\ UNCHANGED <<call, ret, np_global, prev>>

\* one pass of the loop whose load raises: warn and continue
EcLoadFail ==
    /\ pc = "loop"
    /\ locals.k <= Len(locals.issue_dates)
    /\ LET issue_date == locals.issue_dates[locals.k]
       IN  locals' = [locals EXCEPT
                        !.attempts = Append(@, [issue_date |-> issue_date, ok |-> FALSE]),
                        !.warnings = @ + 1,
                        !.k = @ + 1]
    /\ pc' = IF locals.k = Len(locals.issue_dates) THEN "return" ELSE "loop"
    /\ UNCHANGED <<call, ret, np_global, prev>>

\* return ec_track: a NameError when no pass assigned it
EcReturn ==
    /\ pc = "return"
    /\ ret' = IF locals.ec_track.bound
              THEN [status |-> "ok", ec_track |-> locals.ec_track]
              ELSE Raise("UnboundLocalError")
    /\ pc' = "done"
    /\ UNCHANGED <<call, locals, np_global, prev>>

NextEc == EcCall \/ EcLoadOk \/ EcLoadFail \/ EcReturn

SpecEc == Init /\ [][NextEc]_vars

----------------------------------------------------------------------------
(* fit_circle *)

\* most points given to a circle fit
MaxPts == 5

\* where a point of a circular path may lie, <<lat, lon>>: four points on the
\* circle of radius 20 around <<40, 40>>, one inside it and one outside it
CirclePositions ==
    <<  <<40, 60>>, <<60, 40>>, <<40, 20>>, <<20, 40>>, <<40, 44>>, <<64, 64>>  >>

\* the point sequences given to a fit: positions in the order above, no more
\* than MaxPts of them
PointSeqs ==
    {[k \in 1..Len(ix) |-> [lat |-> CirclePositions[ix[k]][1],
                            lon |-> CirclePositions[ix[k]][2]]] :
        ix \in UNION {{jx \in [1..n -> DOMAIN CirclePositions] :
                          \A k \in 1..(n - 1) : jx[k] < jx[k + 1]} : n \in 0..MaxPts}}

RECURSIVE SumSeq(_)
SumSeq(q) == IF q = <<>> THEN 0 ELSE Head(q) + SumSeq(Tail(q))

\* np.mean: NaN of nothing
mean(q) == IF Len(q) = 0 THEN NaN ELSE SumSeq(q) \div Len(q)

\* np.std: the root of the mean squared deviation from the mean
std(q) ==
    IF Len(q) = 0 THEN NaN
    ELSE LET m == mean(q)
         IN  ISqrt(SumSeq([k \in DOMAIN q |-> (q[k] - m) * (q[k] - m)]) \div Len(q))

\* the distances of the points to a centre
center_dists(pts, clat, clon) ==
    [k \in DOMAIN pts |-> geod_inv(pts[k].lon, pts[k].lat, clon, clat)]

\* the cost of fit_circle at x = <<clat, clon>>
circle_cost(pts, x) == std(center_dists(pts, x[1], x[2]))

\* a vertex of the initial simplex: 5 % off a non-zero coordinate, zdelt off 0
nm_nudge(v) == IF v # 0 THEN v + TruncDiv(v, 20) ELSE zdelt

\* whether vertex u comes before vertex v in numpy.argsort of the costs
nm_before(u, v) == Lt(u.f, v.f) \/ (~IsNaN(u.f) /\ IsNaN(v.f))

\* the vertices in the order of their costs: smaller first, NaN last, ties
\* in place
RECURSIVE nm_insert(_, _)
nm_insert(sorted_, v) ==
    IF sorted_ = <<>> THEN <<v>>
    ELSE IF nm_before(v, Head(sorted_)) THEN <<v>> \o sorted_
    ELSE <<Head(sorted_)>> \o nm_insert(Tail(sorted_), v)

RECURSIVE nm2_sort(_)
nm2_sort(sim) ==
    IF sim = <<>> THEN <<>>
    ELSE nm_insert(nm2_sort(SubSeq(sim, 1, Len(sim) - 1)), sim[Len(sim)])

nm2_vertex(pts, x) == [x |-> x, f |-> circle_cost(pts, x)]

\* the loop's exit test in two dimensions
nm2_converged(sim) ==
    /\ \A j \in 2..3 : \A c \in 1..2 : Abs(sim[j].x[c] - sim[1].x[c]) <= xatol
    /\ \A j \in 1..3 : ~IsNaN(sim[j].f)
    /\ \A j \in 2..3 : Abs(sim[1].f - sim[j].f) <= fatol

\* one iteration in two dimensions: xbar is the middle of the two best
\* vertices, the worst one is reflected through it
nm2_step(pts, sim) ==
    LET b == sim[1].x
        g == sim[2].x
        w == sim[3].x
        vr  == nm2_vertex(pts, [c \in 1..2 |-> b[c] + g[c] - w[c]])
        ve  == nm2_vertex(pts, [c \in 1..2 |-> TruncDiv(3 * (b[c] + g[c]), 2) - 2 * w[c]])
        vc  == nm2_vertex(pts, [c \in 1..2 |-> TruncDiv(3 * (b[c] + g[c]) - 2 * w[c], 4)])
        vcc == nm2_vertex(pts, [c \in 1..2 |-> TruncDiv(b[c] + g[c] + 2 * w[c], 4)])
        shrunk(j) == nm2_vertex(pts, [c \in 1..2 |-> b[c] + TruncDiv(sim[j].x[c] - b[c], 2)])
        shrink == <<sim[1], shrunk(2), shrunk(3)>>
    IN  nm2_sort(
          IF Lt(vr.f, sim[1].f)
          THEN IF Lt(ve.f, vr.f) THEN [sim EXCEPT ![3] = ve] ELSE [sim EXCEPT ![3] = vr]
          ELSE IF Lt(vr.f, sim[2].f) THEN [sim EXCEPT ![3] = vr]
          ELSE IF Lt(vr.f, sim[3].f)
               THEN IF Le(vc.f, vr.f) THEN [sim EXCEPT ![3] = vc] ELSE shrink
               ELSE IF Lt(vcc.f, sim[3].f) THEN [sim EXCEPT ![3] = vcc] ELSE shrink)

RECURSIVE nm2_loop(_, _, _)
nm2_loop(pts, sim, iterations) ==
    IF iterations >= 2 * maxiter THEN [x |-> sim[1].x, success |-> FALSE]
    ELSE IF nm2_converged(sim) THEN [x |-> sim[1].x, success |-> TRUE]
    ELSE nm2_loop(pts, nm2_step(pts, sim), iterations + 1)

\* res = minimize(cost, [clat, clon], method="Nelder-Mead")
minimize2(pts, x0) ==
    nm2_loop(pts,
             nm2_sort(<<nm2_vertex(pts, x0),
                        nm2_vertex(pts, <<nm_nudge(x0[1]), x0[2]>>),
                        nm2_vertex(pts, <<x0[1], nm_nudge(x0[2])>>)>>),
             0)

\* a (center_lat, center_lon, radius) returned
Circle(clat, clon, radius) ==
    [status |-> "ok", clat |-> clat, clon |-> clon, radius |-> radius]

\* fit_circle(lat, lon), pts[k] being (lat[k], lon[k]).  Of no points the
\* means, every cost and the mean distance are NaN (numpy warns, nothing is
\* raised), and the simplex, all NaN, stays where it started.
fit_circle(pts) ==
    IF Len(pts) = 0 THEN Circle(NaN, NaN, NaN)
    ELSE LET res == minimize2(pts, <<mean([k \in DOMAIN pts |-> pts[k].lat]),
                                     mean([k \in DOMAIN pts |-> pts[k].lon])>>)
         IN  Circle(res.x[1], res.x[2], mean(center_dists(pts, res.x[1], res.x[2])))

----------------------------------------------------------------------------
(* ransac_fit_circle *)

\* most trials asked for
MaxTrials == 2

\* most draws other code makes from the process-wide generator between calls
MaxOtherDraws == 2

\* the tolerances given as distance_range
DistanceRanges == {0, 2, 8}

\* the seed of the generator
SEED == 12345

\* the states of a generator (those of PCG64, scaled down)
RngModulus == 64

\* the generator's next state
rng_next(state) == (5 * state + 3) % RngModulus

\* a generator that takes the process-wide state instead of the seed
default_rng_global(seed) == np_global

\* np.random.default_rng(seed): a new generator, its state set by the seed
default_rng(seed) == seed % RngModulus

\* the r-th (from 0) index of 1..n not yet taken
nth_free(taken, n, r) ==
    CHOOSE i \in (1..n) \ taken : Cardinality({j \in (1..n) \ taken : j < i}) = r

\* rng.choice(n, 3, replace=False): 3 distinct indices (from 1) decided by the
\* generator's state; a ValueError when n < 3 is the caller's to model
rng_choice(state, n) ==
    LET r  == state % (n * (n - 1) * (n - 2))
        i1 == nth_free({}, n, r % n)
        i2 == nth_free({i1}, n, (r \div n) % (n - 1))
        i3 == nth_free({i1, i2}, n, (r \div (n * (n - 1))) % (n - 2))
    IN  <<i1, i2, i3>>

\* an order that looks at the inlier count alone
tuple_lt_score_only(s, t) == s[1] < t[1]

\* Python's s < t on tuples of equal length: decided by the first position
\* where they differ
tuple_lt(s, t) ==
    \E i \in DOMAIN s : s[i] < t[i] /\ \A j \in 1..(i - 1) : s[j] = t[j]

\* sorted(samples): ascending, equal tuples in their order (insertion sort)
RECURSIVE sorted_insert(_, _)
sorted_insert(q, t) ==
    IF q = <<>> THEN <<t>>
    ELSE IF tuple_lt(t, Head(q)) THEN <<t>> \o q
    ELSE <<Head(q)>> \o sorted_insert(Tail(q), t)

RECURSIVE sorted(_)
sorted(q) ==
    IF q = <<>> THEN <<>>
    ELSE sorted_insert(sorted(SubSeq(q, 1, Len(q) - 1)), q[Len(q)])

\* np.abs(radius - d) <= distance_range: the indices of the points that are
\* inliers of a circle
inliers(pts, clat, clon, radius, distance_range) ==
    LET d == center_dists(pts, clat, clon)
    IN  {k \in DOMAIN pts : Abs(radius - d[k]) <= distance_range}

\* lat[good], lon[good]: the points of the given indices, in their order
take(pts, good) ==
    LET RECURSIVE pick(_)
        pick(k) == IF k > Len(pts) THEN <<>>
                   ELSE (IF k \in good THEN <<pts[k]>> ELSE <<>>) \o pick(k + 1)
    IN  pick(1)

\* one pass of the loop: a sample (n_in, clat, clon, radius) of the circle
\* through the 3 points drawn, n_in counted over all points
trial(pts, idxs, distance_range) ==
    LET c == fit_circle(<<pts[idxs[1]], pts[idxs[2]], pts[idxs[3]]>>)
    IN  <<Cardinality(inliers(pts, c.clat, c.clon, c.radius, distance_range)),
          c.clat, c.clon, c.radius>>

\* the lines after the loop: the best sample, its inliers, the fit of them
select_and_refit(pts, samples, distance_range) ==
    IF Len(samples) = 0 THEN Raise("IndexError")        \* sorted([])[-1]
    ELSE LET best == sorted(samples)[Len(samples)]
             good == inliers(pts, best[2], best[3], best[4], distance_range)
         IN  fit_circle(take(pts, good))

\* ransac_fit_circle(lat, lon, distance_range, n) up to its loop
RansacStart(args) ==
    /\ call' = args
    /\ locals' = [rng |-> default_rng(SEED), samples |-> <<>>, drawn |-> <<>>, i |-> 0]
    /\ ret' = NoCall
    /\ pc' = "trials"

RansacCall ==
    /\ pc = "idle"
    /\ \E pts \in PointSeqs, distance_range \in DistanceRanges, n \in 0..MaxTrials :
          RansacStart([fn |-> "ransac_fit_circle", pts |-> pts,
                       distance_range |-> distance_range, n |-> n])
    /\ UNCHANGED <<np_global, prev>>

\* one pass of for _ in range(n)
RansacTrial ==
    /\ pc = "trials"
    /\ locals.i < call.n
    /\ IF Len(call.pts) < 3
       THEN /\ ret' = Raise("ValueError")       \* rng.choice: sample > population
            /\ pc' = "done"
            /\ UNCHANGED locals
       ELSE LET idxs == rng_choice(locals.rng, Len(call.pts))
            IN  /\ locals' = [rng |-> rng_next(locals.rng),
                              samples |-> Append(locals.samples,
                                                 trial(call.pts, idxs, call.distance_range)),
                              drawn |-> Append(locals.drawn, idxs),
                              i |-> locals.i + 1]
                /\ UNCHANGED <<ret, pc>>
    /\ UNCHANGED <<call, np_global, prev>>

\* the loop is over: select and refit
RansacSelect ==
    /\ pc = "trials"
    /\ locals.i >= call.n
    /\ ret' = select_and_refit(call.pts, locals.samples, call.distance_range)
    /\ pc' = "done"
    /\ UNCHANGED <<call, locals, np_global, prev>>

\* other code draws from the process-wide generator between two calls
OtherRandomUse ==
    /\ pc = "done" /\ call.fn = "ransac_fit_circle" /\ prev = NoCall
    /\ \E k \in 0..(MaxOtherDraws - 1) :
          /\ np_global = k
          /\ np_global' = k + 1
    /\ UNCHANGED <<call, ret, locals, pc, prev>>

\* the same call once more
RansacRepeat ==
    /\ pc = "done" /\ call.fn = "ransac_fit_circle" /\ prev = NoCall
    /\ prev' = [call |-> call, ret |-> ret, drawn |-> locals.drawn]
    /\ RansacStart(call)
    /\ UNCHANGED np_global

\* fit_circle called directly
CallFitCircle ==
    /\ pc = "idle"
    /\ \E pts \in PointSeqs :
        /\ call' = [fn |-> "fit_circle", pts |-> pts]
        /\ ret' = fit_circle(pts)
    /\ locals' = NoCall
    /\ pc' = "done"
    /\ UNCHANGED <<np_global, prev>>

NextCircle ==
    \/ CallFitCircle
    \/ RansacCall
    \/ RansacTrial
    \/ RansacSelect
    \/ OtherRandomUse
    \/ RansacRepeat

SpecCircle == Init /\ [][NextCircle]_vars

----------------------------------------------------------------------------
(* Properties of the overpass finders *)

IsPointCall == call.fn = "get_overpass_point"

IsTrackCall == call.fn = "get_overpass_track"

Min(x, y) == IF x <= y THEN x ELSE y

Max(x, y) == IF x >= y THEN x ELSE y

\* the distance of sample k of the call's track to the call's target
PointDist(k) ==
    geod_inv(call.ds[k].lon, call.ds[k].lat, call.target_lon, call.target_lat)

\* C1: get_overpass_point on a non-empty track returns (d, t) with d the
\* smallest distance of a sample to the target and t the time of the first
\* sample at that distance; no sample is nearer than d.
C1_PointOverpassIsFirstMinimum ==
    (IsPointCall /\ Len(call.ds) > 0) =>
        /\ ret.status = "ok"
        /\ \E i \in DOMAIN call.ds :
            /\ ret.time = call.ds[i].time
            /\ ret.distance = PointDist(i)
            /\ \A j \in DOMAIN call.ds : PointDist(j) >= ret.distance
            /\ \A j \in 1..(i - 1) : PointDist(j) > ret.distance

\* a track on which two samples are nearest and the first of them is returned
C1_Witness ==
    /\ IsPointCall /\ ret.status = "ok"
    /\ \E i, j \in DOMAIN call.ds :
        /\ i < j
        /\ PointDist(i) = ret.distance /\ PointDist(j) = ret.distance
        /\ ret.time = call.ds[i].time
        /\ \E k \in DOMAIN call.ds : PointDist(k) > ret.distance

\* whether sample k of the call's a_track lies in b_track's time window
InWindow(k) ==
    /\ call.b_track[1].time <= call.a_track[k].time
    /\ call.a_track[k].time <= call.b_track[Len(call.b_track)].time

\* the distance of sample k of a_track to b_track interpolated to its time
TrackDist(k) ==
    LET pb == interp(call.b_track, call.a_track[k].time)
    IN  geod_inv(pb.lon, pb.lat, call.a_track[k].lon, call.a_track[k].lat)

\* C2: with optimize=False get_overpass_track returns the coarse estimate:
\* the time is one of a_track's timestamps inside b_track's window, the
\* distance is the smallest distance over a_track's samples in that window,
\* b_track interpolated to each; samples outside the window are no candidates.
C2_CoarseEstimateOverWindow ==
    (IsTrackCall /\ ~call.optimize /\ \E k \in DOMAIN call.a_track : InWindow(k)) =>
        /\ ret.status = "ok"
        /\ \E k \in DOMAIN call.a_track :
            /\ InWindow(k)
            /\ ret.time = call.a_track[k].time
            /\ ret.distance = TrackDist(k)
            /\ \A j \in DOMAIN call.a_track : InWindow(j) => TrackDist(j) >= ret.distance

\* a coarse estimate taken while a_track has samples before and after the
\* window, one of them at the reference track's own position
C2_Witness ==
    /\ IsTrackCall /\ ~call.optimize /\ ret.status = "ok"
    /\ ret.distance > 0
    /\ \E j, k \in DOMAIN call.a_track :
        /\ ~InWindow(j) /\ InWindow(k) /\ j < k
        /\ <<call.a_track[j].lat, call.a_track[j].lon>>
             = <<call.b_track[1].lat, call.b_track[1].lon>>

\* C3: every overpass returned has distance >= 0 and its time inside the
\* overlap window of the two tracks (the span of the track for the point
\* case), the refined time of optimize=True included.
C3_ResultInsideWindow ==
    /\ (IsPointCall /\ ret.status = "ok") =>
          /\ ret.distance >= 0
          /\ call.ds[1].time <= ret.time
          /\ ret.time <= call.ds[Len(call.ds)].time
    /\ (IsTrackCall /\ ret.status = "ok") =>
          /\ ret.distance >= 0
          /\ Max(call.a_track[1].time, call.b_track[1].time) <= ret.time
          /\ ret.time <= Min(call.a_track[Len(call.a_track)].time,
                             call.b_track[Len(call.b_track)].time)

\* a refinement started on the last timestamp of the window, whose simplex
\* has a vertex outside the window, and that moved off the coarse estimate
C3_Witness ==
    /\ IsTrackCall /\ call.optimize /\ ret.status = "ok"
    /\ locals.t_guess = locals.a[Len(locals.a)].time
    /\ locals.res.x # 0
    /\ ret.distance < locals.dist_i

C8_EmptyOverlapFails ==
    (IsTrackCall /\ \A k \in DOMAIN call.a_track : ~InWindow(k)) =>
        ret.status = "raise"

\* a refining call on two non-empty tracks that share no time
C8_Witness ==
    /\ IsTrackCall /\ call.optimize
    /\ Len(call.a_track) >= 2
    /\ \A k \in DOMAIN call.a_track : ~InWindow(k)
    /\ ret.status = "raise"

----------------------------------------------------------------------------
(* Properties of get_takeoff_landing *)

IsTakeoffCall == call.fn = "get_takeoff_landing"

\* the height the call's series is compared with for take-off, for landing
HeightUp == airport_takeoff_wgs84(call.ds[1].time)

HeightDown == airport_landing_wgs84(call.ds[Len(call.ds)].time)

\* C10: on a time-ordered series with a sample above the take-off height and
\* a sample above the landing height, takeoff is the time of the first sample
\* above the take-off height, landing the time of the last sample above the
\* landing height, and takeoff <= landing: the duration is never negative.
C10_TakeoffBeforeLanding ==
    (/\ IsTakeoffCall
     /\ \E k \in DOMAIN call.ds : call.ds[k].alt > HeightUp
     /\ \E k \in DOMAIN call.ds : call.ds[k].alt > HeightDown) =>
        /\ ret.status = "ok"
        /\ HeightUp \in {Memmingen, Sal, Barbados}
        /\ HeightDown \in {Memmingen, Sal, Barbados}
        /\ \E i, j \in DOMAIN call.ds :
            /\ call.ds[i].alt > HeightUp /\ ret.takeoff = call.ds[i].time
            /\ \A k \in 1..(i - 1) : call.ds[k].alt <= HeightUp
            /\ call.ds[j].alt > HeightDown /\ ret.landing = call.ds[j].time
            /\ \A k \in (j + 1)..Len(call.ds) : call.ds[k].alt <= HeightDown
        /\ ret.takeoff <= ret.landing
        /\ ret.duration >= 0

\* a flight from Sal to Memmingen whose samples above Sal's height begin
\* before those above Memmingen's, and whose first sample is on the ground
C10_Witness ==
    /\ IsTakeoffCall /\ ret.status = "ok"
    /\ HeightUp = Sal /\ HeightDown = Memmingen
    /\ Len(call.ds) = 3
    /\ call.ds[1].alt <= Sal
    /\ call.ds[2].alt > Sal /\ call.ds[2].alt <= Memmingen
    /\ call.ds[3].alt > Memmingen
    /\ ret.takeoff < ret.landing

----------------------------------------------------------------------------
(* Properties of get_ec_track *)

\* get_ec_track is past get_takeoff_landing
EcRunning == call.fn = "get_ec_track" /\ pc \in {"loop", "return"}

EcEnded == call.fn = "get_ec_track" /\ pc = "done" /\ locals # NoCall

\* the attempts so far that loaded a track
EcLoaded == {k \in DOMAIN locals.attempts : locals.attempts[k].ok}

\* C9 (as claimed): on every path, the one where all 6 attempts fail
\* included, the function ends by returning a track that one of the attempts
\* loaded.
C9_AlwaysReturnsLoadedTrack ==
    EcEnded =>
        /\ ret.status = "ok"
        /\ \E k \in EcLoaded : ret.ec_track.issue_date = locals.attempts[k].issue_date

\* C9 (amended): the issue dates are tried in the order valid_date,
\* valid_date - 1, ..., valid_date - 5, at most 6 of them; the first attempt
\* that loads ends the loop and its track is what is returned; each failed
\* attempt gives one warning and leads to the next date; when all 6 attempts
\* fail no track is returned: the function raises.
C9_FirstLoadedTrackOrRaise ==
    (EcRunning \/ EcEnded) =>
        /\ Len(locals.attempts) <= 6
        /\ \A k \in DOMAIN locals.attempts :
              locals.attempts[k].issue_date = astype_D(locals.takeoff) - (k - 1)
        /\ \A k \in EcLoaded : k = Len(locals.attempts)
        /\ locals.warnings = Cardinality(DOMAIN locals.attempts \ EcLoaded)
        /\ (pc = "loop") => (EcLoaded = {} /\ Len(locals.attempts) < 6)
        /\ (pc = "return") => (EcLoaded # {} \/ Len(locals.attempts) = 6)
        /\ EcEnded =>
              IF EcLoaded # {}
              THEN /\ ret.status = "ok"
                   /\ ret.ec_track.issue_date
                        = locals.attempts[Len(locals.attempts)].issue_date
                   /\ ret.ec_track.day = astype_D(locals.takeoff)
              ELSE /\ Len(locals.attempts) = 6
                   /\ ret.status = "raise"

\* a lookup that failed on the flight day and the day before and returned the
\* forecast issued two days before, for a take-off in the second half of a day
C9_Witness ==
    /\ EcEnded /\ ret.status = "ok"
    /\ Len(locals.attempts) = 3
    /\ locals.warnings = 2
    /\ locals.takeoff # Midnight(astype_D(locals.takeoff))
    /\ ret.ec_track.issue_date = astype_D(locals.takeoff) - 2

----------------------------------------------------------------------------
(* Properties of the circle fits *)

IsRansacCall == call.fn = "ransac_fit_circle"

IsFitCall == call.fn = "fit_circle"

\* whether q is the beginning of r
IsPrefix(q, r) == Len(q) <= Len(r) /\ \A k \in DOMAIN q : q[k] = r[k]

\* C4: two calls of ransac_fit_circle with the same lat, lon, distance_range
\* and n give the same (center_lat, center_lon, radius): each call draws the
\* same index triples in the same order, whatever was called or drawn before.
C4_SameCallSameCircle ==
    (IsRansacCall /\ prev # NoCall /\ prev.call = call) =>
        /\ IsPrefix(locals.drawn, prev.drawn)
        /\ (pc = "done") => (ret = prev.ret /\ locals.drawn = prev.drawn)

\* a second call that has returned a circle after two trials with different
\* triples, other code having drawn from the process-wide generator in between
C4_Witness ==
    /\ IsRansacCall /\ prev # NoCall /\ pc = "done"
    /\ ret.status = "ok"
    /\ np_global > 0
    /\ Len(locals.drawn) = 2
    /\ locals.drawn[1] # locals.drawn[2]

\* the inliers of a recorded sample, counted over all points of the call
SampleInliers(t) ==
    {k \in DOMAIN call.pts :
        Abs(t[4] - geod_inv(call.pts[k].lon, call.pts[k].lat, t[3], t[2]))
            <= call.distance_range}

\* sample t comes after sample u in the order of (inlier_count, center_lat,
\* center_lon, radius)
LexGreater(t, u) ==
    \/ t[1] > u[1]
    \/ t[1] = u[1] /\ t[2] > u[2]
    \/ t[1] = u[1] /\ t[2] = u[2] /\ t[3] > u[3]
    \/ t[1] = u[1] /\ t[2] = u[2] /\ t[3] = u[3] /\ t[4] > u[4]

\* the samples of the call that no other sample comes after
Winners ==
    {w \in DOMAIN locals.samples :
        \A k \in DOMAIN locals.samples :
            ~LexGreater(locals.samples[k], locals.samples[w])}

RansacSelected == IsRansacCall /\ pc = "done" /\ Len(locals.samples) >= 1

\* C5: after n >= 1 trials the sample greatest in the order of (inlier_count,
\* center_lat, center_lon, radius) is selected, and the circle returned is
\* the fit over exactly the input points p with
\* |radius_win - dist(p, center_win)| <= distance_range; every sample's
\* inlier count is taken over all input points.
C5_BestSampleRefit ==
    RansacSelected =>
        /\ Len(locals.samples) = call.n
        /\ \A k \in DOMAIN locals.samples :
              locals.samples[k][1] = Cardinality(SampleInliers(locals.samples[k]))
        /\ \E w \in Winners :
              ret = fit_circle(take(call.pts, SampleInliers(locals.samples[w])))

\* two trials with the same inlier count, the earlier one with the larger
\* center_lat and selected; the circle returned is the fit of its inliers,
\* which are not all points, and not the fit of the other trial's inliers
C5_Witness ==
    /\ RansacSelected /\ ret.status = "ok"
    /\ \E i, j \in DOMAIN locals.samples :
        /\ i < j /\ i \in Winners
        /\ locals.samples[i][1] = locals.samples[j][1]
        /\ locals.samples[i][2] > locals.samples[j][2]
        /\ SampleInliers(locals.samples[i]) # DOMAIN call.pts
        /\ ret = fit_circle(take(call.pts, SampleInliers(locals.samples[i])))
        /\ ret # fit_circle(take(call.pts, SampleInliers(locals.samples[j])))

\* C6 (as claimed): ransac_fit_circle fails when n < 1 or fewer than 3
\* points are given, and fit_circle fails when given fewer than 3 points, its
\* call for the final refit included; none of these returns a circle.
C6_FewPointsFail ==
    /\ (IsRansacCall /\ pc = "done" /\ (call.n < 1 \/ Len(call.pts) < 3)) =>
          ret.status = "raise"
    /\ (IsFitCall /\ Len(call.pts) < 3) => ret.status = "raise"
    /\ (RansacSelected /\ \A w \in Winners :
                             Cardinality(SampleInliers(locals.samples[w])) < 3) =>
          ret.status = "raise"

\* the part of C6 about the final refit alone
C6_RefitOfFewInliersFails ==
    (RansacSelected /\ \A w \in Winners :
                          Cardinality(SampleInliers(locals.samples[w])) < 3) =>
        ret.status = "raise"

\* the part of C6 about ransac_fit_circle's own arguments, which holds
C6_BadArgumentsFail ==
    (IsRansacCall /\ pc = "done" /\ (call.n < 1 \/ Len(call.pts) < 3)) =>
        ret.status = "raise"

====
